---------------------------- MODULE Spec2Model ----------------------------
(***************************************************************************)
(* TopCode recognition (src/python/Scanner.py, src/python/TopCode.py) as a *)
(* state machine.                                                          *)
(*                                                                         *)
(* Numbers that the program keeps as floats are kept here as exact         *)
(* integers in a fixed unit:                                               *)
(*   TopCode.x, TopCode.y      sixths of a pixel   (cx + (right-left)/6.0) *)
(*   TopCode.unit              1/160 of a pixel    (sum/8.0, times 1+u/20) *)
(*   TopCode.orientation, arca hundredths of ARC   (a * ARC * 0.1, 0.65)   *)
(* Pixel words of Scanner.data are signed 32-bit integers, as in the       *)
(* numpy int32 buffer.                                                     *)
(***************************************************************************)
EXTENDS Integers, Sequences, FiniteSets

VARIABLES
    pc,      \* position of the program: which statement runs next
    arg,     \* argument of a direct call of checksum / rotateLowest
    ret,     \* value returned by the last call (scan, checksum, rotateLowest)
    maxu,    \* Scanner.maxu
    image,   \* Scanner.image: [w, h, px], px[y*w+x] the grey value of a pixel
    w,       \* Scanner.w
    h,       \* Scanner.h
    data,    \* Scanner.data: linear index -> pixel word
    ccount,  \* Scanner.ccount
    tcount,  \* Scanner.tcount
    j,       \* row of the running loop (threshold, findCodes)
    i,       \* column counter of the running loop
    k,       \* linear index of the running loop
    sum,     \* threshold(): running brightness sum
    level,   \* threshold(): run-length level
    b1,      \* threshold(): length of the first black run
    w1,      \* threshold(): length of the middle white run
    b2,      \* threshold(): length of the second black run
    a,       \* threshold(): classification of the pixel just processed
    ntest,   \* history: how often the bullseye test (line 317) was evaluated
    heap,    \* TopCode objects by identity
    spot,    \* findCodes(): identity of the TopCode being decoded into
    spots,   \* findCodes(): identities of the accepted TopCodes, in order
    dec,     \* decode(): its local variables
    nover    \* history: confirmed candidates that overlaps() suppressed

vars == <<pc, arg, ret, maxu, image, w, h, data, ccount, tcount, j, i, k, sum,
          level, b1, w1, b2, a, ntest, heap, spot, spots, dec, nover>>

scannerVars == <<maxu, image, w, h, data, ccount, tcount>>
loopVars == <<j, i, k>>
thresholdVars == <<sum, level, b1, w1, b2, a, ntest>>
codeVars == <<heap, spot, spots, dec, nover>>

----------------------------------------------------------------------------
(* Program constants *)

SECTORS == 13
WIDTH == 8
CodeMask == 8191
DefaultMaxu == 80
ArcSteps == 10
OrientBias == 65

(* Fixed units of the float fields *)
PosScale == 6
UnitScale == 160
ArcScale == 100

(* Bounds of the model *)
MaxBits == 8191

----------------------------------------------------------------------------
(* Integer helpers *)

Abs(n) == IF n < 0 THEN -n ELSE n

(* bit n of a two's complement word: (word >> n) & 1 *)
Bit(word, n) == (word \div (2 ^ n)) % 2

----------------------------------------------------------------------------
(* TopCode objects *)

(* TopCode.__init__ *)
NewTopCode == [code |-> -1, unit |-> (72 * UnitScale) \div WIDTH,
               orientation |-> 0, x |-> 0, y |-> 0]

(* TopCode.isValid *)
isValid(top) == top.code > 0

(* TopCode.checksum: the loop over the 13 low bits, summing them *)
RECURSIVE ChecksumLoop(_, _, _)
ChecksumLoop(bits, n, s) ==
    IF n = SECTORS THEN s
    ELSE ChecksumLoop(bits \div 2, n + 1, s + (bits % 2))

checksumMutant(bits) == ChecksumLoop(bits, 1, 0) = 5

checksum(bits) == ChecksumLoop(bits, 0, 0) = 5

(* a rotation that loses the bit shifted out at the top *)
RotateLeftMutant(bits) == (bits * 2) % (CodeMask + 1)

(* one turn of the loop of rotateLowest (line 294):                        *)
(* ((bits << 1) & mask) | (bits >> (SECTORS - 1))                           *)
RotateLeft(bits) ==
    ((bits * 2) % (CodeMask + 1)) + (bits \div (2 ^ (SECTORS - 1)))

(* TopCode.rotateLowest: the loop state is <<bits, min, orientation>>;      *)
(* returns [min, orientation]                                              *)
RECURSIVE RotateLoop(_, _, _, _)
RotateLoop(bits, min, orient, n) ==
    IF n > SECTORS THEN [min |-> min, orientation |-> orient]
    ELSE LET nb == RotateLeft(bits)
         IN  IF nb < min
             THEN RotateLoop(nb, nb, n * (-ArcScale), n + 1)
             ELSE RotateLoop(nb, min, orient, n + 1)

rotateLowest(bits, arca) ==
    LET r == RotateLoop(bits, bits, 0, 1)
    IN  [min |-> r.min, orientation |-> r.orientation + (arca - OrientBias)]


----------------------------------------------------------------------------
(* The state after construction: Scanner.__init__ and one TopCode()        *)

NoCall == [fn |-> "none", bits |-> 0, arca |-> 0]
NoDecode == [cx |-> 0, cy |-> 0, up |-> 0, down |-> 0, left |-> 0, right |-> 0,
             n |-> 0, c |-> 0, maxc |-> 0, maxa |-> 0, maxu |-> 0]
NoImage == [w |-> 0, h |-> 0, px |-> <<>>]

Constructed ==
    /\ arg = NoCall
    /\ ret = <<>>
    /\ maxu = DefaultMaxu
    /\ image = NoImage
    /\ w = 0
    /\ h = 0
    /\ data = <<>>
    /\ ccount = 0
    /\ tcount = 0
    /\ j = 0 /\ i = 0 /\ k = 0
    /\ sum = 0 /\ level = 0 /\ b1 = 0 /\ w1 = 0 /\ b2 = 0 /\ a = 0 /\ ntest = 0
    /\ heap = <<NewTopCode>>
    /\ spot = 1
    /\ spots = <<>>
    /\ dec = NoDecode
    /\ nover = 0

----------------------------------------------------------------------------
(* Direct calls of the pure methods of a TopCode: checksum(bits) and       *)
(* rotateLowest(bits, arca), arca = a * ARC * 0.1 as decode passes it.     *)

CallChecksum ==
    /\ pc = "idle"
    /\ \E n \in 0..MaxBits : arg' = [fn |-> "checksum", bits |-> n, arca |-> 0]
    /\ pc' = "checksum"
    /\ UNCHANGED <<ret, scannerVars, loopVars, thresholdVars, codeVars>>

ReturnChecksum ==
    /\ pc = "checksum"
    /\ ret' = <<checksum(arg.bits)>>
    /\ pc' = "returned"
    /\ UNCHANGED <<arg, scannerVars, loopVars, thresholdVars, codeVars>>

CallRotateLowest ==
    /\ pc = "idle"
    /\ \E n \in 0..MaxBits : \E s \in 0..(ArcSteps - 1) :
          arg' = [fn |-> "rotateLowest", bits |-> n,
                  arca |-> s * (ArcScale \div ArcSteps)]
    /\ pc' = "rotateLowest"
    /\ UNCHANGED <<ret, scannerVars, loopVars, thresholdVars, codeVars>>

ReturnRotateLowest ==
    /\ pc = "rotateLowest"
    /\ LET r == rotateLowest(arg.bits, arg.arca)
       IN  /\ ret' = <<r.min>>
           /\ heap' = [heap EXCEPT ![spot].orientation = r.orientation]
    /\ pc' = "returned"
    /\ UNCHANGED <<arg, scannerVars, loopVars, thresholdVars, spot, spots, dec,
                   nover>>

(* The setters of a TopCode, called on an object the caller holds: the     *)
(* TopCode() of the construction and, once scan has returned, the symbols  *)
(* of its list                                                             *)
Held == {1} \cup (IF pc = "done" THEN {spots[n] : n \in DOMAIN spots} ELSE {})

(* TopCode.setCode *)
SetCode(codes) ==
    /\ pc \in {"idle", "done"}
    /\ \E t \in Held : \E c \in codes : heap' = [heap EXCEPT ![t].code = c]
    /\ UNCHANGED <<pc, arg, ret, scannerVars, loopVars, thresholdVars, spot,
                   spots, dec, nover>>

(* TopCode.setOrientation, the angle in hundredths of ARC *)
SetOrientation(angles) ==
    /\ pc \in {"idle", "done"}
    /\ \E t \in Held : \E o \in angles :
          heap' = [heap EXCEPT ![t].orientation = o]
    /\ UNCHANGED <<pc, arg, ret, scannerVars, loopVars, thresholdVars, spot,
                   spots, dec, nover>>

(* TopCode.setDiameter, the diameter an integer number of pixels, which    *)
(* the / of Python 2 divides to an integer                                 *)
SetDiameter(diameters) ==
    /\ pc \in {"idle", "done"}
    /\ \E t \in Held : \E d \in diameters :
          heap' = [heap EXCEPT ![t].unit = UnitScale * (d \div WIDTH)]
    /\ UNCHANGED <<pc, arg, ret, scannerVars, loopVars, thresholdVars, spot,
                   spots, dec, nover>>

(* TopCode.setLocation, x and y in sixths of a pixel *)
SetLocation(places) ==
    /\ pc \in {"idle", "done"}
    /\ \E t \in Held : \E xy \in places :
          heap' = [heap EXCEPT ![t].x = xy[1], ![t].y = xy[2]]
    /\ UNCHANGED <<pc, arg, ret, scannerVars, loopVars, thresholdVars, spot,
                   spots, dec, nover>>

(* TopCode.generateCodes: the number of codes asked for *)
GeneratedCodes == 99

(* TopCode.generateCodes: the values of base that pass the test of the     *)
(* loop, bits == base and checksum(bits); all that the loop reaches lie    *)
(* below 2^13                                                              *)
FoundCodes ==
    {base \in 0..CodeMask : rotateLowest(base, 0).min = base /\ checksum(base)}

(* TopCode.generateCodes: the loop, from one value of base that passes the *)
(* test to the next, codes the list so far; the TopCode() that             *)
(* rotateLowest is called on gets its code and orientation set before it   *)
(* is appended                                                             *)
RECURSIVE GenerateLoop(_, _)
GenerateLoop(base, codes) ==
    IF Len(codes) >= GeneratedCodes THEN codes
    ELSE LET bits == CHOOSE n \in FoundCodes :
                         n >= base /\ \A m \in FoundCodes : m >= base => n <= m
         IN  GenerateLoop(bits + 1,
                 Append(codes, [NewTopCode EXCEPT !.code = bits,
                                                  !.orientation = 0]))

generateCodes == GenerateLoop(0, <<>>)

(* a call of generateCodes, which leaves the object it is called on alone  *)
GenerateCodes ==
    /\ pc = "idle"
    /\ arg' = [fn |-> "generateCodes", bits |-> 0, arca |-> 0]
    /\ ret' = <<generateCodes>>
    /\ pc' = "returned"
    /\ UNCHANGED <<scannerVars, loopVars, thresholdVars, codeVars>>

(* arguments of the setters *)
SetCodes == {0, 31, 8191}
SetAngles == {100}
SetDiameters == {36}
SetPlaces == {<<18, 27>>}

InitIdle == pc = "idle" /\ Constructed

NextChecksum ==
    \/ CallChecksum
    \/ ReturnChecksum
    \/ SetCode(SetCodes)
    \/ SetOrientation(SetAngles)
    \/ SetDiameter(SetDiameters)
    \/ SetLocation(SetPlaces)

SpecChecksum == InitIdle /\ [][NextChecksum]_vars

NextRotate == CallRotateLowest \/ ReturnRotateLowest \/ GenerateCodes
SpecRotate == InitIdle /\ [][NextRotate]_vars

----------------------------------------------------------------------------
(* Reference notions the claims are stated with *)

(* the positions among the 13 low bits that are set *)
SetBits(n) == {b \in 0..(SECTORS - 1) : Bit(n, b) = 1}
PopCount(n) == Cardinality(SetBits(n))

(* n turned left by r places in a ring of 13 bits *)
Turned(n, r) == ((n * (2 ^ r)) % (2 ^ SECTORS)) + (n \div (2 ^ (SECTORS - r)))
Rotations(n) == {Turned(n, r) : r \in 0..(SECTORS - 1)}
Least(S) == CHOOSE m \in S : \A x \in S : m <= x

(* C1: checksum(n) is True exactly when 5 of the 13 low bits of n are set, *)
(* for every n in 0..8191; and exactly 1287 values of 0..8191 are accepted *)
C1_ChecksumIsPopCount5 ==
    /\ pc = "returned" /\ arg.fn = "checksum" /\ arg.bits <= CodeMask
          => (ret[1] <=> PopCount(arg.bits) = 5)
    /\ pc = "checksum" /\ arg.bits = 0
          => Cardinality({n \in 0..CodeMask : checksum(n)}) = 1287

C1_Witness ==
    /\ pc = "returned" /\ arg.fn = "checksum"
    /\ arg.bits = 4111 /\ ret = <<TRUE>>

(* C2: for a 13-bit n with valid checksum and any arc adjustment,          *)
(* rotateLowest returns the least of the 13 cyclic rotations of n; the     *)
(* result has as many set bits as n, and rotateLowest maps it to itself    *)
C2_RotateLowestIsLeastRotation ==
    pc = "returned" /\ arg.fn = "rotateLowest" /\ arg.bits <= CodeMask
        /\ PopCount(arg.bits) = 5
    => /\ ret[1] = Least(Rotations(arg.bits))
       /\ PopCount(ret[1]) = PopCount(arg.bits)
       /\ \A s \in 0..(ArcSteps - 1) :
             rotateLowest(ret[1], s * (ArcScale \div ArcSteps)).min = ret[1]

C2_Witness ==
    /\ pc = "returned" /\ arg.fn = "rotateLowest"
    /\ arg.bits = 4111 /\ ret = <<31>> /\ arg.arca = 90


----------------------------------------------------------------------------
(* Scanner: pixel words *)

WindowS == 30
WhiteBit == 24
FlagBit == 25

(* Scanner.getRGB, one pixel (b, g, r):                                    *)
(* (0xFF << 24) | (r << 16) | (g << 8) | b stored in an int32              *)
PackPixel(b, g, r) == (r * 65536 + g * 256 + b) - (2 ^ 24)

(* Scanner.getRGB: the linear buffer of a grey image (b = g = r)           *)
getRGB(img) ==
    [n \in 0..(img.w * img.h - 1) |-> PackPixel(img.px[n], img.px[n], img.px[n])]

(* pixel & 0xffffff *)
Low24(word) == word % (2 ^ 24)

(* (pixel & 0x2000000) > 0 *)
Flagged(word) == Bit(word, FlagBit) = 1

(* Scanner.getBW, on a word: (pixel >> 24) & 0x01 *)
BW(word) == Bit(word, WhiteBit)

(* word | 0x2000000 *)
SetFlag(word) == IF Flagged(word) THEN word ELSE word + (2 ^ FlagBit)

(* Scanner.setMaxCodeDiameter: int(math.ceil(diameter / 8.0)) *)
MaxUnitOf(diameter) == (diameter + 7) \div 8

----------------------------------------------------------------------------
(* Scanner.threshold *)

(* lines 242-245: mean intensity of a pixel word *)
Intensity(pixel) ==
    (((pixel \div 65536) % 256) + ((pixel \div 256) % 256) + (pixel % 256)) \div 3

(* line 252: sum += a - (sum / s) *)
RunningSum(s0, av) == s0 + av - (s0 \div WindowS)

(* a threshold that takes the whole word of the pixel above for its sum *)
ThresholdOfMutant(d, n, width, nsum) ==
    IF n >= width
    THEN (nsum + d[n - width]) \div (2 * WindowS)
    ELSE nsum \div WindowS

(* lines 257-260: the threshold of the pixel at index n, from the updated  *)
(* sum and the word stored for the pixel above                             *)
ThresholdOf(d, n, width, nsum) ==
    IF n >= width
    THEN (nsum + Low24(d[n - width])) \div (2 * WindowS)
    ELSE nsum \div WindowS

(* lines 268-270: 0 if (a < threshold * 0.975) else 1; 0.975 = 39/40 *)
Classify(av, thr) == IF 40 * av < 39 * thr THEN 0 ELSE 1

(* a repacking that shifts the class one bit too far *)
RepackMutant(cls, nsum) == cls * (2 ^ FlagBit) + Low24(nsum)

(* line 279: (a << 24) + (sum & 0xffffff) *)
Repack(cls, nsum) == cls * (2 ^ WhiteBit) + Low24(nsum)

(* a test that forgets the lower bound on the second black run *)
IsBullsEyeMutant(p1, p2, q1, mu) ==
    /\ p1 >= 2 /\ p1 <= mu /\ p2 <= mu /\ q1 <= mu + mu
    /\ Abs(p1 + p2 - q1) <= p1 + p2
    /\ Abs(p1 + p2 - q1) <= q1
    /\ Abs(p1 - p2) <= p1
    /\ Abs(p1 - p2) <= p2

(* line 317: the ratio test on the run lengths b1, b2, w1 *)
IsBullsEye(p1, p2, q1, mu) ==
    /\ p1 >= 2 /\ p2 >= 2 /\ p1 <= mu /\ p2 <= mu /\ q1 <= mu + mu
    /\ Abs(p1 + p2 - q1) <= p1 + p2
    /\ Abs(p1 + p2 - q1) <= q1
    /\ Abs(p1 - p2) <= p1
    /\ Abs(p1 - p2) <= p2

(* a midpoint that takes every row for a left-to-right one *)
CentreIndexMutant(n, row, p2, q1) == n - (1 + p2 + q1 \div 2)

(* lines 320-324: index of the middle of the white run *)
CentreIndex(n, row, p2, q1) ==
    IF row % 2 = 0 THEN n - (1 + p2 + q1 \div 2) ELSE n + (1 + p2 + q1 \div 2)

(* lines 326-328: flag dk-1, dk, dk+1 *)
FlagThree(d, dk) ==
    [d EXCEPT ![dk - 1] = SetFlag(d[dk - 1]),
              ![dk] = SetFlag(d[dk]),
              ![dk + 1] = SetFlag(d[dk + 1])]

(* a reset that starts over from the white level *)
AfterTestMutant(p2) == [level |-> 0, b1 |-> p2, w1 |-> 1, b2 |-> 0]

(* lines 331-334: the runs after the ratio test, passed or not *)
AfterTest(p2) == [level |-> 2, b1 |-> p2, w1 |-> 1, b2 |-> 0]

(* lines 282-334: the run-length machine on one classified pixel.          *)
(* Gives the new level and run lengths, and whether the ratio test ran     *)
(* and passed.                                                             *)
LevelStep(lv, p1, q1, p2, cls, mu) ==
    CASE lv = 0 ->
           IF cls = 0
           THEN [level |-> 1, b1 |-> 1, w1 |-> 0, b2 |-> 0, test |-> FALSE, hit |-> FALSE]
           ELSE [level |-> 0, b1 |-> p1, w1 |-> q1, b2 |-> p2, test |-> FALSE, hit |-> FALSE]
      [] lv = 1 ->
           IF cls = 0
           THEN [level |-> 1, b1 |-> p1 + 1, w1 |-> q1, b2 |-> p2, test |-> FALSE, hit |-> FALSE]
           ELSE [level |-> 2, b1 |-> p1, w1 |-> 1, b2 |-> p2, test |-> FALSE, hit |-> FALSE]
      [] lv = 2 ->
           IF cls = 0
           THEN [level |-> 3, b1 |-> p1, w1 |-> q1, b2 |-> 1, test |-> FALSE, hit |-> FALSE]
           ELSE [level |-> 2, b1 |-> p1, w1 |-> q1 + 1, b2 |-> p2, test |-> FALSE, hit |-> FALSE]
      [] lv = 3 ->
           IF cls = 0
           THEN [level |-> 3, b1 |-> p1, w1 |-> q1, b2 |-> p2 + 1, test |-> FALSE, hit |-> FALSE]
           ELSE LET r == AfterTest(p2)
                IN  [level |-> r.level, b1 |-> r.b1, w1 |-> r.w1, b2 |-> r.b2,
                     test |-> TRUE, hit |-> IsBullsEye(p1, p2, q1, mu)]

(* line 227 with a reset of the running sum added *)
RowStartSumMutant(s0) == 128

(* lines 226-227: what a new row does to the running sum: nothing *)
RowStartSum(s0) == s0

(* Scanner.setMaxCodeDiameter *)
SetMaxCodeDiameter(diameters) ==
    /\ pc = "idle"
    /\ maxu = DefaultMaxu
    /\ \E d \in diameters : maxu' = MaxUnitOf(d)
    /\ UNCHANGED <<pc, arg, ret, image, w, h, data, ccount, tcount, loopVars,
                   thresholdVars, codeVars>>

(* Scanner.scan up to the first row of threshold(): lines 90-96, 218-225 *)
Scan(images) ==
    /\ pc = "idle"
    /\ \E img \in images :
          /\ image' = img
          /\ w' = img.w
          /\ h' = img.h
          /\ data' = getRGB(img)
    /\ sum' = 128
    /\ ccount' = 0
    /\ j' = 0
    /\ pc' = "row"
    /\ UNCHANGED <<arg, ret, maxu, tcount, i, k, level, b1, w1, b2, a, ntest,
                   codeVars>>

(* threshold(), lines 226-234: the head of the loop over the rows *)
StartRow ==
    /\ pc = "row"
    /\ j < h
    /\ level' = 0 /\ b1' = 0 /\ b2' = 0 /\ w1' = 0
    /\ sum' = RowStartSum(sum)
    /\ k' = (IF j % 2 = 0 THEN 0 ELSE w - 1) + j * w
    /\ i' = 0
    /\ pc' = "pixel"
    /\ UNCHANGED <<arg, ret, scannerVars, j, a, ntest, codeVars>>

(* threshold(), lines 236-336: one pixel of the row *)
ThresholdPixel ==
    /\ pc = "pixel"
    /\ LET av == Intensity(data[k])
           nsum == RunningSum(sum, av)
           cls == Classify(av, ThresholdOf(data, k, w, nsum))
           packed == [data EXCEPT ![k] = Repack(cls, nsum)]
           st == LevelStep(level, b1, w1, b2, cls, maxu)
       IN  /\ sum' = nsum
           /\ a' = cls
           /\ level' = st.level /\ b1' = st.b1 /\ w1' = st.w1 /\ b2' = st.b2
           /\ ntest' = IF st.test THEN ntest + 1 ELSE ntest
           /\ data' = IF st.hit
                      THEN FlagThree(packed, CentreIndex(k, j, b2, w1))
                      ELSE packed
           /\ ccount' = IF st.hit THEN ccount + 3 ELSE ccount
    /\ k' = IF j % 2 = 0 THEN k + 1 ELSE k - 1
    /\ IF i + 1 < w
       THEN i' = i + 1 /\ j' = j /\ pc' = "pixel"
       ELSE i' = 0 /\ j' = j + 1 /\ pc' = "row"
    /\ UNCHANGED <<arg, ret, maxu, image, w, h, tcount, codeVars>>

----------------------------------------------------------------------------
(* Rasters given to scan *)

Black == 0
White == 255

(* Bounds of the rasters *)
MaxPixels == 12
MaxW == 9
MaxH == 6
MaxUniformW == 64

(* every raster of black and white pixels with at most MaxPixels pixels *)
BinaryImages ==
    UNION { { [w |-> ww, h |-> hh, px |-> f] :
                f \in [0..(ww * hh - 1) -> {Black, White}] } :
            <<ww, hh>> \in {s \in (1..MaxPixels) \X (1..MaxPixels) :
                              s[1] * s[2] <= MaxPixels} }

(* vertical stripes: every row of black and white pixels up to MaxW wide,  *)
(* repeated over up to MaxH rows                                           *)
StripeImages ==
    UNION { { [w |-> ww, h |-> hh, px |-> [n \in 0..(ww * hh - 1) |-> row[n % ww]]] :
                row \in [0..(ww - 1) -> {Black, White}] } :
            <<ww, hh>> \in (1..MaxW) \X (1..MaxH) }

(* rows of MaxPairs pairs of equal pixels, black or white, repeated over   *)
(* one or two rows: long enough for two bullseye tests to pass in a row    *)
MaxPairs == 6

PairedImages ==
    { [w |-> 2 * MaxPairs, h |-> hh,
       px |-> [n \in 0..(2 * MaxPairs * hh - 1) |-> row[(n % (2 * MaxPairs)) \div 2]]] :
        row \in [0..(MaxPairs - 1) -> {Black, White}], hh \in 1..2 }

(* one grey value everywhere *)
UniformImages ==
    { [w |-> ww, h |-> hh, px |-> [n \in 0..(ww * hh - 1) |-> v]] :
        ww \in 1..MaxUniformW, hh \in 1..MaxH, v \in {Black, White} }

IsUniform(img, v) == \A n \in DOMAIN img.px : img.px[n] = v

SmallDiameters == {16}

NextThreshold ==
    \/ SetMaxCodeDiameter(SmallDiameters)
    \/ Scan(BinaryImages)
    \/ Scan(StripeImages)
    \/ Scan(PairedImages)
    \/ StartRow
    \/ ThresholdPixel

SpecThreshold == InitIdle /\ [][NextThreshold]_vars


----------------------------------------------------------------------------
(* Claims about threshold() *)

(* the processed pixels that carry the candidate flag: a word that         *)
(* threshold() has written is not negative                                 *)
Candidates(d) == {n \in DOMAIN d : d[n] >= 0 /\ Flagged(d[n])}

(* C8: on every pixel of a row the level stays in 0..3 and changes only    *)
(* 0->1 (black), 1->2 (white), 2->3 (black), 3->2 (white); it never skips  *)
(* a level or returns to 0 or 1 within the row, and the bullseye test runs *)
(* on the 3->2 changes and on no other pixel                               *)
C8_LevelTransitions ==
    [][pc = "pixel" =>
         /\ level \in 0..3 /\ level' \in 0..3
         /\ level' # level =>
               \/ level = 0 /\ level' = 1 /\ a' = 0
               \/ level = 1 /\ level' = 2 /\ a' = 1
               \/ level = 2 /\ level' = 3 /\ a' = 0
               \/ level = 3 /\ level' = 2 /\ a' = 1
         /\ level = 3 /\ a' = 1 => level' = 2
         /\ IF level = 3 /\ level' = 2 THEN ntest' = ntest + 1 ELSE ntest' = ntest
      ]_vars

C8_Witness ==
    pc = "pixel" /\ j = 1 /\ level = 2 /\ w1 = 1 /\ a = 1 /\ ntest = 3

(* C9 as claimed: every row starts from a fresh scan state, the running    *)
(* sum (128) included                                                      *)
C9_FreshStateEachRow ==
    pc = "pixel" /\ i = 0
        => sum = 128 /\ level = 0 /\ b1 = 0 /\ w1 = 0 /\ b2 = 0

(* C9 amended: the head of every row resets level, b1, w1 and b2 to 0 and  *)
(* leaves the running sum as the last pixel of the preceding row left it;  *)
(* the sum is 128 only before the first row                                *)
C9_RowStartKeepsSum ==
    [][pc = "row" /\ pc' = "pixel" =>
         /\ level' = 0 /\ b1' = 0 /\ w1' = 0 /\ b2' = 0
         /\ sum' = sum
         /\ j = 0 => sum' = 128
      ]_vars

C9_Witness ==
    pc = "pixel" /\ i = 0 /\ j = 1 /\ sum = 857
        /\ level = 0 /\ b1 = 0 /\ w1 = 0 /\ b2 = 0

(* C10: on a white pixel at level 3 candidates are flagged exactly when    *)
(* b1 >= 2, b2 >= 2, b1 <= maxu, b2 <= maxu, w1 <= 2*maxu,                  *)
(* |b1+b2-w1| <= b1+b2, |b1+b2-w1| <= w1, |b1-b2| <= b1, |b1-b2| <= b2;    *)
(* either way the state afterwards is b1 = old b2, w1 = 1, b2 = 0, level 2 *)
C10_BullsEyeTest ==
    [][pc = "pixel" /\ level = 3 /\ a' = 1 =>
         LET ok == /\ b1 >= 2 /\ b2 >= 2 /\ b1 <= maxu /\ b2 <= maxu
                   /\ w1 <= 2 * maxu
                   /\ Abs(b1 + b2 - w1) <= b1 + b2 /\ Abs(b1 + b2 - w1) <= w1
                   /\ Abs(b1 - b2) <= b1 /\ Abs(b1 - b2) <= b2
         IN  /\ ok => /\ Candidates(data') # Candidates(data)
                      /\ Candidates(data) \subseteq Candidates(data')
                      /\ ccount' = ccount + 3
             /\ ~ok => /\ Candidates(data') = Candidates(data)
                       /\ ccount' = ccount
             /\ b1' = b2 /\ w1' = 1 /\ b2' = 0 /\ level' = 2
      ]_vars

C10_Witness ==
    pc = "pixel" /\ level = 2 /\ w1 = 1 /\ a = 1 /\ ntest = 2 /\ ccount = 3
        /\ maxu = 2

----------------------------------------------------------------------------
(* Scanner: samples of the thresholded buffer *)

(* an area test that lets the last rows through *)
OutsideAreaMutant(x, y) == x < 1 \/ x > w - 2 \/ y < 1 \/ y > h - 1

(* lines 179, 197: the points for which no 3x3 region is read *)
OutsideArea(x, y) == x < 1 \/ x > w - 2 \/ y < 1 \/ y >= h - 2

(* lines 183-185, 201-203: the linear indices j * w + i read around (x, y) *)
Region3x3(x, y) == {(y + dy) * w + (x + dx) : dx \in -1..1, dy \in -1..1}

(* lines 183-187, 201-204: the white pixels among the 3x3 around (x, y) *)
WhiteCount(x, y) == Cardinality({n \in Region3x3(x, y) : BW(data[n]) = 1})

(* Scanner.getSample3x3: 0 outside the area, else int(sum / 9) of 0xff's *)
getSample3x3(x, y) ==
    IF OutsideArea(x, y) THEN 0 ELSE (WhiteCount(x, y) * 255) \div 9

(* Scanner.getBW3x3: 0 outside the area, else the majority of the region *)
getBW3x3(x, y) ==
    IF OutsideArea(x, y) THEN 0 ELSE IF WhiteCount(x, y) >= 5 THEN 1 ELSE 0

(* Scanner.ydist: the loop over jj = y + d, y + 2d, ... *)
RECURSIVE YDistLoop(_, _, _, _, _)
YDistLoop(x, y, d, start, jj) ==
    IF jj > 1 /\ jj < h - 1
    THEN IF start + getBW3x3(x, jj) = 1
         THEN (IF d > 0 THEN jj - y ELSE y - jj)
         ELSE YDistLoop(x, y, d, start, jj + d)
    ELSE -1

ydist(x, y, d) == YDistLoop(x, y, d, getBW3x3(x, y), y + d)

(* Scanner.xdist: the loop over ii = x + d, x + 2d, ... *)
RECURSIVE XDistLoop(_, _, _, _, _)
XDistLoop(x, y, d, start, ii) ==
    IF ii > 1 /\ ii < w - 1
    THEN IF start + getBW3x3(ii, y) = 1
         THEN (IF d > 0 THEN ii - x ELSE x - ii)
         ELSE XDistLoop(x, y, d, start, ii + d)
    ELSE -1

xdist(x, y, d) == XDistLoop(x, y, d, getBW3x3(x, y), x + d)

----------------------------------------------------------------------------
(* TopCode: unit length *)

(* int(round(v)) of a position kept in sixths: halves go away from zero *)
Round6(v6) ==
    IF v6 >= 0 THEN (v6 + PosScale \div 2) \div PosScale
    ELSE -((PosScale \div 2 - v6) \div PosScale)

(* readUnit, lines 349-353 (and the three copies): one direction's state   *)
(* [white, dist] after the sample at distance n                            *)
Track(st, sample, n) ==
    IF st.dist <= 0
    THEN IF st.white /\ sample = 0 THEN [white |-> FALSE, dist |-> st.dist]
         ELSE IF ~st.white /\ sample = 1 THEN [white |-> st.white, dist |-> n]
         ELSE st
    ELSE st

(* readUnit, lines 380-385: u = (distR + distL + distU + distD) / 8.0, or  *)
(* -1 when the two diameters differ by more than u                         *)
UnitOf(dl, dr, du, dd) ==
    IF WIDTH * Abs(dr + dl - du - dd) > dr + dl + du + dd
    THEN -UnitScale
    ELSE ((dr + dl + du + dd) * UnitScale) \div WIDTH

(* readUnit: the loop over the distance n from (sx, sy) *)
RECURSIVE ReadUnitLoop(_, _, _, _, _, _, _)
ReadUnitLoop(sx, sy, n, l, r, u, d) ==
    IF sx - n < 1 \/ sx + n >= w - 1 \/ sy - n < 1 \/ sy + n >= h - 1 \/ n > 100
    THEN -UnitScale
    ELSE LET nl == Track(l, getBW3x3(sx - n, sy), n)
             nr == Track(r, getBW3x3(sx + n, sy), n)
             nu == Track(u, getBW3x3(sx, sy - n), n)
             nd == Track(d, getBW3x3(sx, sy + n), n)
         IN  IF nr.dist > 0 /\ nl.dist > 0 /\ nu.dist > 0 /\ nd.dist > 0
             THEN UnitOf(nl.dist, nr.dist, nu.dist, nd.dist)
             ELSE ReadUnitLoop(sx, sy, n + 1, nl, nr, nu, nd)

(* TopCode.readUnit of a symbol centred at (x6, y6) *)
readUnit(x6, y6) ==
    LET fresh == [white |-> TRUE, dist |-> 0]
    IN  ReadUnitLoop(Round6(x6), Round6(y6), 1, fresh, fresh, fresh, fresh)

----------------------------------------------------------------------------
(* TopCode: sample positions of readCode                                   *)
(*                                                                         *)
(* readCode samples at int(round(x + cos(t) * dist)) and                   *)
(* int(round(y + sin(t) * dist)), t = ARC * sector + arca at one of 130    *)
(* angles and dist = (i - 3.5) * unit.  The doubles that math.cos and      *)
(* math.sin give at these angles are tabulated to 18 decimals, as a sign   *)
(* and seven limbs to the base 1000, the integer part first; the rounding  *)
(* is done on exact integers.                                              *)

TrigLimb == 1000
TrigLimbs == 7

(* math.cos(ARC * s + a * ARC * 0.1) at index 10 * s + a + 1: the sign,    *)
(* and the limbs of the absolute value                                     *)
CosTable ==
    << <<1, 1, 0, 0, 0, 0, 0, 0>>, <<1, 0, 998, 832, 226, 832, 326, 642>>,
       <<1, 0, 995, 331, 634, 717, 648, 628>>, <<1, 0, 989, 506, 399, 451, 51, 122>>,
       <<1, 0, 981, 370, 126, 139, 413, 435>>, <<1, 0, 970, 941, 817, 426, 52, 12>>,
       <<1, 0, 958, 245, 829, 109, 166, 225>>, <<1, 0, 943, 311, 813, 257, 743, 48>>,
       <<1, 0, 926, 174, 648, 957, 776, 570>>, <<1, 0, 906, 874, 360, 850, 545, 402>>,
       <<1, 0, 885, 456, 25, 653, 209, 911>>, <<1, 0, 861, 969, 666, 880, 49, 279>>,
       <<1, 0, 836, 470, 138, 10, 226, 738>>, <<1, 0, 809, 16, 994, 374, 947, 451>>,
       <<1, 0, 779, 674, 354, 63, 222, 497>>, <<1, 0, 748, 510, 748, 171, 101, 192>>,
       <<1, 0, 715, 598, 960, 744, 121, 104>>, <<1, 0, 681, 15, 858, 786, 797, 157>>,
       <<1, 0, 644, 842, 212, 736, 170, 595>>, <<1, 0, 607, 162, 507, 818, 711, 283>>,
       <<1, 0, 568, 64, 746, 731, 155, 923>>, <<1, 0, 527, 640, 244, 106, 132, 750>>,
       <<1, 0, 485, 983, 413, 242, 606, 188>>, <<1, 0, 443, 191, 545, 599, 241, 343>>,
       <<1, 0, 399, 364, 583, 565, 695, 652>>, <<1, 0, 354, 604, 887, 42, 535, 788>>,
       <<1, 0, 309, 16, 994, 374, 947, 451>>, <<1, 0, 262, 707, 378, 198, 587, 83>>,
       <<1, 0, 215, 784, 196, 767, 806, 358>>, <<1, 0, 168, 357, 41, 347, 38, 633>>,
       <<1, 0, 120, 536, 680, 255, 323, 228>>, <<1, 0, 72, 434, 800, 161, 762, 625>>,
       <<1, 0, 24, 163, 745, 236, 132, 416>>, <<-1, 0, 24, 163, 745, 236, 132, 73>>,
       <<-1, 0, 72, 434, 800, 161, 762, 56>>, <<-1, 0, 120, 536, 680, 255, 322, 881>>,
       <<-1, 0, 168, 357, 41, 347, 38, 300>>, <<-1, 0, 215, 784, 196, 767, 806, 25>>,
       <<-1, 0, 262, 707, 378, 198, 586, 750>>, <<-1, 0, 309, 16, 994, 374, 947, 340>>,
       <<-1, 0, 354, 604, 887, 42, 535, 455>>, <<-1, 0, 399, 364, 583, 565, 695, 319>>,
       <<-1, 0, 443, 191, 545, 599, 241, 232>>, <<-1, 0, 485, 983, 413, 242, 606, 77>>,
       <<-1, 0, 527, 640, 244, 106, 132, 528>>, <<-1, 0, 568, 64, 746, 731, 155, 701>>,
       <<-1, 0, 607, 162, 507, 818, 711, 172>>, <<-1, 0, 644, 842, 212, 736, 170, 373>>,
       <<-1, 0, 681, 15, 858, 786, 797, 46>>, <<-1, 0, 715, 598, 960, 744, 120, 993>>,
       <<-1, 0, 748, 510, 748, 171, 100, 859>>, <<-1, 0, 779, 674, 354, 63, 222, 275>>,
       <<-1, 0, 809, 16, 994, 374, 947, 118>>, <<-1, 0, 836, 470, 138, 10, 226, 516>>,
       <<-1, 0, 861, 969, 666, 880, 49, 57>>, <<-1, 0, 885, 456, 25, 653, 209, 577>>,
       <<-1, 0, 906, 874, 360, 850, 545, 291>>, <<-1, 0, 926, 174, 648, 957, 776, 347>>,
       <<-1, 0, 943, 311, 813, 257, 743, 48>>, <<-1, 0, 958, 245, 829, 109, 166, 114>>,
       <<-1, 0, 970, 941, 817, 426, 51, 901>>, <<-1, 0, 981, 370, 126, 139, 413, 435>>,
       <<-1, 0, 989, 506, 399, 451, 51, 11>>, <<-1, 0, 995, 331, 634, 717, 648, 628>>,
       <<-1, 0, 998, 832, 226, 832, 326, 531>>, <<-1, 1, 0, 0, 0, 0, 0, 0>>,
       <<-1, 0, 998, 832, 226, 832, 326, 642>>, <<-1, 0, 995, 331, 634, 717, 648, 628>>,
       <<-1, 0, 989, 506, 399, 451, 51, 233>>, <<-1, 0, 981, 370, 126, 139, 413, 546>>,
       <<-1, 0, 970, 941, 817, 426, 52, 123>>, <<-1, 0, 958, 245, 829, 109, 166, 225>>,
       <<-1, 0, 943, 311, 813, 257, 743, 270>>, <<-1, 0, 926, 174, 648, 957, 776, 681>>,
       <<-1, 0, 906, 874, 360, 850, 545, 513>>, <<-1, 0, 885, 456, 25, 653, 210, 133>>,
       <<-1, 0, 861, 969, 666, 880, 49, 390>>, <<-1, 0, 836, 470, 138, 10, 226, 849>>,
       <<-1, 0, 809, 16, 994, 374, 947, 562>>, <<-1, 0, 779, 674, 354, 63, 222, 719>>,
       <<-1, 0, 748, 510, 748, 171, 101, 303>>, <<-1, 0, 715, 598, 960, 744, 121, 215>>,
       <<-1, 0, 681, 15, 858, 786, 797, 490>>, <<-1, 0, 644, 842, 212, 736, 170, 928>>,
       <<-1, 0, 607, 162, 507, 818, 711, 394>>, <<-1, 0, 568, 64, 746, 731, 155, 923>>,
       <<-1, 0, 527, 640, 244, 106, 132, 750>>, <<-1, 0, 485, 983, 413, 242, 606, 688>>,
       <<-1, 0, 443, 191, 545, 599, 241, 843>>, <<-1, 0, 399, 364, 583, 565, 695, 985>>,
       <<-1, 0, 354, 604, 887, 42, 535, 899>>, <<-1, 0, 309, 16, 994, 374, 947, 562>>,
       <<-1, 0, 262, 707, 378, 198, 586, 972>>, <<-1, 0, 215, 784, 196, 767, 806, 52>>,
       <<-1, 0, 168, 357, 41, 347, 39, 188>>, <<-1, 0, 120, 536, 680, 255, 323, 575>>,
       <<-1, 0, 72, 434, 800, 161, 762, 750>>, <<-1, 0, 24, 163, 745, 236, 132, 541>>,
       <<1, 0, 24, 163, 745, 236, 132, 173>>, <<1, 0, 72, 434, 800, 161, 762, 375>>,
       <<1, 0, 120, 536, 680, 255, 322, 326>>, <<1, 0, 168, 357, 41, 347, 37, 967>>,
       <<1, 0, 215, 784, 196, 767, 805, 692>>, <<1, 0, 262, 707, 378, 198, 586, 583>>,
       <<1, 0, 309, 16, 994, 374, 946, 397>>, <<1, 0, 354, 604, 887, 42, 534, 733>>,
       <<1, 0, 399, 364, 583, 565, 694, 820>>, <<1, 0, 443, 191, 545, 599, 240, 733>>,
       <<1, 0, 485, 983, 413, 242, 605, 633>>, <<1, 0, 527, 640, 244, 106, 132, 417>>,
       <<1, 0, 568, 64, 746, 731, 155, 590>>, <<1, 0, 607, 162, 507, 818, 711, 61>>,
       <<1, 0, 644, 842, 212, 736, 170, 595>>, <<1, 0, 681, 15, 858, 786, 797, 268>>,
       <<1, 0, 715, 598, 960, 744, 120, 660>>, <<1, 0, 748, 510, 748, 171, 100, 748>>,
       <<1, 0, 779, 674, 354, 63, 222, 164>>, <<1, 0, 809, 16, 994, 374, 947, 340>>,
       <<1, 0, 836, 470, 138, 10, 226, 738>>, <<1, 0, 861, 969, 666, 880, 49, 279>>,
       <<1, 0, 885, 456, 25, 653, 209, 577>>, <<1, 0, 906, 874, 360, 850, 545, 180>>,
       <<1, 0, 926, 174, 648, 957, 776, 347>>, <<1, 0, 943, 311, 813, 257, 743, 48>>,
       <<1, 0, 958, 245, 829, 109, 165, 892>>, <<1, 0, 970, 941, 817, 426, 51, 790>>,
       <<1, 0, 981, 370, 126, 139, 413, 324>>, <<1, 0, 989, 506, 399, 451, 51, 11>>,
       <<1, 0, 995, 331, 634, 717, 648, 628>>, <<1, 0, 998, 832, 226, 832, 326, 531>> >>

(* math.sin(ARC * s + a * ARC * 0.1) at index 10 * s + a + 1; the entry of *)
(* PiIndex is 0 here, and SinResidueShows tells where the double shows     *)
SinTable ==
    << <<1, 0, 0, 0, 0, 0, 0, 0>>, <<1, 0, 48, 313, 379, 525, 507, 65>>,
       <<1, 0, 96, 513, 920, 914, 515, 106>>, <<1, 0, 144, 489, 49, 569, 221, 317>>,
       <<1, 0, 192, 126, 717, 353, 708, 371>>, <<1, 0, 239, 315, 664, 287, 557, 739>>,
       <<1, 0, 285, 945, 678, 398, 689, 229>>, <<1, 0, 331, 907, 853, 128, 528, 441>>,
       <<1, 0, 377, 94, 841, 688, 320, 415>>, <<1, 0, 421, 401, 107, 772, 529, 93>>,
       <<1, 0, 464, 723, 172, 43, 768, 507>>, <<1, 0, 506, 959, 853, 813, 590, 322>>,
       <<1, 0, 548, 12, 507, 354, 669, 887>>, <<1, 0, 587, 785, 252, 292, 473, 137>>,
       <<1, 0, 626, 185, 197, 538, 313, 587>>, <<1, 0, 663, 122, 658, 240, 795, 82>>,
       <<1, 0, 698, 511, 365, 248, 936, 977>>, <<1, 0, 732, 268, 666, 597, 773, 454>>,
       <<1, 0, 764, 315, 720, 545, 848, 287>>, <<1, 0, 794, 577, 679, 713, 754, 259>>,
       <<1, 0, 822, 983, 865, 893, 656, 352>>, <<1, 0, 849, 467, 935, 121, 520, 967>>,
       <<1, 0, 873, 968, 32, 626, 517, 899>>, <<1, 0, 896, 426, 937, 295, 703, 774>>,
       <<1, 0, 916, 792, 195, 316, 582, 403>>, <<1, 0, 935, 16, 242, 685, 414, 722>>,
       <<1, 0, 951, 56, 516, 295, 153, 531>>, <<1, 0, 964, 875, 553, 343, 551, 462>>,
       <<1, 0, 976, 441, 78, 829, 272, 2>>, <<1, 0, 985, 726, 80, 931, 650, 817>>,
       <<1, 0, 992, 708, 874, 98, 53, 973>>, <<1, 0, 997, 373, 149, 691, 491, 45>>,
       <<1, 0, 999, 708, 14, 80, 192, 942>>, <<1, 0, 999, 708, 14, 80, 192, 942>>,
       <<1, 0, 997, 373, 149, 691, 491, 157>>, <<1, 0, 992, 708, 874, 98, 53, 973>>,
       <<1, 0, 985, 726, 80, 931, 650, 928>>, <<1, 0, 976, 441, 78, 829, 272, 113>>,
       <<1, 0, 964, 875, 553, 343, 551, 462>>, <<1, 0, 951, 56, 516, 295, 153, 642>>,
       <<1, 0, 935, 16, 242, 685, 414, 833>>, <<1, 0, 916, 792, 195, 316, 582, 514>>,
       <<1, 0, 896, 426, 937, 295, 703, 774>>, <<1, 0, 873, 968, 32, 626, 517, 899>>,
       <<1, 0, 849, 467, 935, 121, 521, 189>>, <<1, 0, 822, 983, 865, 893, 656, 463>>,
       <<1, 0, 794, 577, 679, 713, 754, 259>>, <<1, 0, 764, 315, 720, 545, 848, 509>>,
       <<1, 0, 732, 268, 666, 597, 773, 676>>, <<1, 0, 698, 511, 365, 248, 936, 977>>,
       <<1, 0, 663, 122, 658, 240, 795, 526>>, <<1, 0, 626, 185, 197, 538, 313, 920>>,
       <<1, 0, 587, 785, 252, 292, 473, 581>>, <<1, 0, 548, 12, 507, 354, 670, 331>>,
       <<1, 0, 506, 959, 853, 813, 590, 655>>, <<1, 0, 464, 723, 172, 43, 769, 62>>,
       <<1, 0, 421, 401, 107, 772, 529, 537>>, <<1, 0, 377, 94, 841, 688, 320, 748>>,
       <<1, 0, 331, 907, 853, 128, 528, 607>>, <<1, 0, 285, 945, 678, 398, 689, 729>>,
       <<1, 0, 239, 315, 664, 287, 558, 100>>, <<1, 0, 192, 126, 717, 353, 708, 593>>,
       <<1, 0, 144, 489, 49, 569, 221, 845>>, <<1, 0, 96, 513, 920, 914, 515, 508>>,
       <<1, 0, 48, 313, 379, 525, 507, 322>>, <<1, 0, 0, 0, 0, 0, 0, 0>>,
       <<-1, 0, 48, 313, 379, 525, 506, 635>>, <<-1, 0, 96, 513, 920, 914, 514, 814>>,
       <<-1, 0, 144, 489, 49, 569, 220, 707>>, <<-1, 0, 192, 126, 717, 353, 707, 926>>,
       <<-1, 0, 239, 315, 664, 287, 557, 434>>, <<-1, 0, 285, 945, 678, 398, 689, 63>>,
       <<-1, 0, 331, 907, 853, 128, 527, 941>>, <<-1, 0, 377, 94, 841, 688, 320, 82>>,
       <<-1, 0, 421, 401, 107, 772, 528, 871>>, <<-1, 0, 464, 723, 172, 43, 768, 62>>,
       <<-1, 0, 506, 959, 853, 813, 590, 100>>, <<-1, 0, 548, 12, 507, 354, 669, 776>>,
       <<-1, 0, 587, 785, 252, 292, 473, 26>>, <<-1, 0, 626, 185, 197, 538, 313, 365>>,
       <<-1, 0, 663, 122, 658, 240, 794, 971>>, <<-1, 0, 698, 511, 365, 248, 936, 866>>,
       <<-1, 0, 732, 268, 666, 597, 773, 121>>, <<-1, 0, 764, 315, 720, 545, 848, 65>>,
       <<-1, 0, 794, 577, 679, 713, 754, 148>>, <<-1, 0, 822, 983, 865, 893, 656, 352>>,
       <<-1, 0, 849, 467, 935, 121, 521, 78>>, <<-1, 0, 873, 968, 32, 626, 517, 566>>,
       <<-1, 0, 896, 426, 937, 295, 703, 552>>, <<-1, 0, 916, 792, 195, 316, 582, 181>>,
       <<-1, 0, 935, 16, 242, 685, 414, 722>>, <<-1, 0, 951, 56, 516, 295, 153, 531>>,
       <<-1, 0, 964, 875, 553, 343, 551, 462>>, <<-1, 0, 976, 441, 78, 829, 272, 113>>,
       <<-1, 0, 985, 726, 80, 931, 650, 817>>, <<-1, 0, 992, 708, 874, 98, 53, 973>>,
       <<-1, 0, 997, 373, 149, 691, 491, 45>>, <<-1, 0, 999, 708, 14, 80, 192, 942>>,
       <<-1, 0, 999, 708, 14, 80, 192, 942>>, <<-1, 0, 997, 373, 149, 691, 491, 157>>,
       <<-1, 0, 992, 708, 874, 98, 54, 84>>, <<-1, 0, 985, 726, 80, 931, 651, 39>>,
       <<-1, 0, 976, 441, 78, 829, 272, 224>>, <<-1, 0, 964, 875, 553, 343, 551, 573>>,
       <<-1, 0, 951, 56, 516, 295, 153, 864>>, <<-1, 0, 935, 16, 242, 685, 415, 166>>,
       <<-1, 0, 916, 792, 195, 316, 582, 736>>, <<-1, 0, 896, 426, 937, 295, 704, 107>>,
       <<-1, 0, 873, 968, 32, 626, 518, 232>>, <<-1, 0, 849, 467, 935, 121, 521, 300>>,
       <<-1, 0, 822, 983, 865, 893, 656, 574>>, <<-1, 0, 794, 577, 679, 713, 754, 370>>,
       <<-1, 0, 764, 315, 720, 545, 848, 287>>, <<-1, 0, 732, 268, 666, 597, 773, 454>>,
       <<-1, 0, 698, 511, 365, 248, 937, 421>>, <<-1, 0, 663, 122, 658, 240, 795, 526>>,
       <<-1, 0, 626, 185, 197, 538, 313, 920>>, <<-1, 0, 587, 785, 252, 292, 473, 359>>,
       <<-1, 0, 548, 12, 507, 354, 669, 998>>, <<-1, 0, 506, 959, 853, 813, 590, 322>>,
       <<-1, 0, 464, 723, 172, 43, 769, 173>>, <<-1, 0, 421, 401, 107, 772, 529, 648>>,
       <<-1, 0, 377, 94, 841, 688, 320, 859>>, <<-1, 0, 331, 907, 853, 128, 528, 718>>,
       <<-1, 0, 285, 945, 678, 398, 690, 284>>, <<-1, 0, 239, 315, 664, 287, 558, 655>>,
       <<-1, 0, 192, 126, 717, 353, 709, 148>>, <<-1, 0, 144, 489, 49, 569, 221, 956>>,
       <<-1, 0, 96, 513, 920, 914, 515, 633>>, <<-1, 0, 48, 313, 379, 525, 507, 447>> >>

(* The angle ARC * 6 + 5 * ARC * 0.1 is one ulp below pi as a double, and  *)
(* its sine is the double 5.66553889764798e-16 and not 0: PiIndex is the   *)
(* index of the angle, and SinPiResidue is that sine times 2^53, to 18     *)
(* decimals, as the entries of the tables are written.                     *)
PiIndex == 65
SinPiResidue == <<1, 5, 103, 63, 773, 660, 98, 334>>

(* the product of the limbs L[n], n = 2..idx, and N, added to carry: q is  *)
(* its integer part and nz tells that a fraction is left                   *)
RECURSIVE MulLimbs(_, _, _, _, _)
MulLimbs(L, N, idx, carry, nz) ==
    IF idx = 2 THEN [q |-> L[2] * N + carry, nz |-> nz]
    ELSE LET t == L[idx] * N + carry
         IN  MulLimbs(L, N, idx - 1, t \div TrigLimb, nz \/ t % TrigLimb # 0)

(* int(round(c + C * m * unit / 2)), c in sixths, unit in 1/160, C an      *)
(* entry of a table: the sum is taken in 1/960, its integer part being J,  *)
(* and halves go away from zero as round() does                            *)
SamplePos(c6, C, m, u160) ==
    LET D == PosScale * UnitScale
        p == MulLimbs(C, (PosScale \div 2) * Abs(m * u160), TrigLimbs + 1, 0, FALSE)
        sgn == IF m * u160 >= 0 THEN C[1] ELSE -C[1]
        I == UnitScale * c6 + sgn * p.q
        J == IF sgn < 0 /\ p.nz THEN I - 1 ELSE I
    IN  IF J >= 0 THEN (J + D \div 2) \div D
        ELSE -((D \div 2 - J - (IF p.nz THEN 1 ELSE 0)) \div D)

(* the largest power of two p, p0 <= p, that is not above v6 / 6 *)
RECURSIVE FloorPow2(_, _)
FloorPow2(v6, p) ==
    IF 2 * p <= v6 \div PosScale THEN FloorPow2(v6, 2 * p) ELSE p

(* y + sin(t) * dist at t = "pi", in doubles: the sum is y itself unless   *)
(* the product is more than half the way to the next double.  That shows   *)
(* in round() when y is n + 0.5 and the product points towards zero: the   *)
(* next double towards zero is 2^-52 times the largest power of two not    *)
(* above |y| away, and half as far for |y| = 0.5, a power of two itself;   *)
(* the product is |m| * unit / 2 times the sine, so |m| * u160 times       *)
(* SinPiResidue is held against 320 times that power of two (80 for 0.5)   *)
SinResidueShows(y6, m, u160) ==
    LET ay == Abs(y6)
        D == IF ay < PosScale THEN UnitScale \div 2 ELSE 2 * UnitScale
        p == MulLimbs(SinPiResidue, Abs(m * u160), TrigLimbs + 1, 0, FALSE)
        P == FloorPow2(ay, 1)
    IN  /\ y6 % PosScale = PosScale \div 2
        /\ IF y6 > 0 THEN m * u160 < 0 ELSE m * u160 > 0
        /\ \/ p.q \div D > P
           \/ p.q \div D = P /\ (p.q % D > 0 \/ p.nz)

(* line 240: sx of sample m = 2i - 7 at angle index kk *)
SampleX(x6, kk, m, u160) == SamplePos(x6, CosTable[kk + 1], m, u160)

(* line 241: sy of sample m = 2i - 7 at angle index kk *)
SampleY(y6, kk, m, u160) ==
    SamplePos(y6, SinTable[kk + 1], m, u160)
        - (IF kk = PiIndex /\ SinResidueShows(y6, m, u160)
           THEN (IF y6 > 0 THEN 1 ELSE -1) ELSE 0)

----------------------------------------------------------------------------
(* TopCode.readCode *)

(* lines 235-236: index of the angle ARC * sector + arca, in tenths of ARC *)
AngleIndex(sector, arca) ==
    (ArcScale * sector + arca) \div (ArcScale \div ArcSteps)

(* line 242: core[n] *)
Core(x6, y6, u160, kk, n) ==
    getSample3x3(SampleX(x6, kk, 2 * n - 7, u160),
                 SampleY(y6, kk, 2 * n - 7, u160))

(* lines 234-272: the loop over the sectors, from SECTORS - 1 down to 0;   *)
(* gives the confidence returned and the code left in self.code            *)
RECURSIVE ReadSectors(_, _, _, _, _, _, _)
ReadSectors(x6, y6, u160, arca, sector, c, bits) ==
    IF sector < 0
    THEN IF checksum(bits) THEN [c |-> c, code |-> bits]
         ELSE [c |-> 0, code |-> -1]
    ELSE LET kk == AngleIndex(sector, arca)
             core == [n \in 0..(WIDTH - 1) |-> Core(x6, y6, u160, kk, n)]
         IN  IF core[1] <= 128 \/ core[3] <= 128 \/ core[4] <= 128 \/ core[6] <= 128
             THEN [c |-> 0, code |-> -1]
             ELSE IF core[2] > 128 \/ core[5] > 128
             THEN [c |-> 0, code |-> -1]
             ELSE ReadSectors(x6, y6, u160, arca, sector - 1,
                      c + (core[1] + core[3] + core[4] + core[6]
                           + (255 - core[2]) + (255 - core[5]))
                        + Abs(core[7] * 2 - 255)
                        + (255 - Abs(core[0] * 2 - 255)),
                      bits * 2 + (IF core[7] > 128 THEN 1 ELSE 0))

readCode(x6, y6, u160, arca) ==
    ReadSectors(x6, y6, u160, arca, SECTORS - 1, 0, 0)

(* line 202: self.unit + (self.unit * 0.05 * u) *)
AttemptUnit(unit, u) == unit + (unit * u) \div 20

(* TopCode.inBullsEye: (x - px)^2 + (y - py)^2 <= unit^2, both sides      *)
(* times (PosScale * UnitScale / 2)^2                                      *)
inBullsEye(top, px, py) ==
    ((UnitScale \div 2) * (UnitScale \div 2))
        * ((top.x - PosScale * px) * (top.x - PosScale * px)
           + (top.y - PosScale * py) * (top.y - PosScale * py))
      <= ((PosScale \div 2) * (PosScale \div 2)) * (top.unit * top.unit)

----------------------------------------------------------------------------
(* Scanner.findCodes and TopCode.decode *)

(* lines 351-352: the pixel at index n and its four neighbours are flagged *)
Confirmed(d, n) ==
    /\ Flagged(d[n])
    /\ Flagged(d[n - 1]) /\ Flagged(d[n + 1])
    /\ Flagged(d[n - w]) /\ Flagged(d[n + w])

(* an overlap test that never finds an overlap *)
overlapsMutant(sp, hp, x, y) == FALSE

(* Scanner.overlaps, on the list sp of identities and the objects hp *)
overlaps(sp, hp, x, y) == \E n \in DOMAIN sp : inBullsEye(hp[sp[n]], x, y)

(* a count taken before the overlap test *)
TestedCountMutant(tc, seed, over) == IF seed THEN tc + 1 ELSE tc

(* lines 351-359: tcount after a pixel that is a confirmed candidate       *)
(* (seed) or not and that overlaps an accepted symbol (over) or not        *)
TestedCount(tc, seed, over) == IF seed /\ ~over THEN tc + 1 ELSE tc

(* an append that keeps decoding into the object just appended *)
AfterAppendMutant(hp, sp) == [heap |-> hp, spot |-> sp]

(* line 363: spot = TopCode() *)
AfterAppend(hp, sp) == [heap |-> Append(hp, NewTopCode), spot |-> Len(hp) + 1]

(* lines 349-350, 365: on to the next pixel of the sweep *)
Advance ==
    /\ k' = k + 1
    /\ IF i + 1 < w THEN i' = i + 1 /\ j' = j ELSE i' = 0 /\ j' = j + 1

(* findCodes, lines 344-348, entered when threshold() is through its rows *)
FindStart ==
    /\ pc = "row"
    /\ j = h
    /\ tcount' = 0
    /\ spots' = <<>>
    /\ heap' = Append(heap, NewTopCode)
    /\ spot' = Len(heap) + 1
    /\ k' = w * 2
    /\ j' = 2
    /\ i' = 0
    /\ pc' = "find"
    /\ UNCHANGED <<arg, ret, maxu, image, w, h, data, ccount, thresholdVars,
                   dec, nover>>

(* findCodes, lines 351-360: one pixel of the sweep, up to the call of     *)
(* decode                                                                  *)
FindStep ==
    /\ pc = "find"
    /\ j < h - 2
    /\ LET seed == Confirmed(data, k)
           over == seed /\ overlaps(spots, heap, i, j)
       IN  /\ tcount' = TestedCount(tcount, seed, over)
           /\ nover' = IF over THEN nover + 1 ELSE nover
           /\ IF seed /\ ~over
              THEN /\ pc' = "decode"
                   /\ dec' = [NoDecode EXCEPT !.cx = i, !.cy = j]
                   /\ UNCHANGED loopVars
              ELSE /\ pc' = "find"
                   /\ Advance
                   /\ UNCHANGED dec
    /\ UNCHANGED <<arg, ret, maxu, image, w, h, data, ccount, thresholdVars,
                   heap, spot, spots>>

(* decode, lines 168-184: the centre and the unit of the symbol; a         *)
(* negative unit ends decode, and findCodes goes on (lines 361, 365)       *)
DecodeCentre ==
    /\ pc = "decode"
    /\ LET cx == dec.cx
           cy == dec.cy
           up == ydist(cx, cy, -1) + ydist(cx - 1, cy, -1) + ydist(cx + 1, cy, -1)
           down == ydist(cx, cy, 1) + ydist(cx - 1, cy, 1) + ydist(cx + 1, cy, 1)
           left == xdist(cx, cy, -1) + xdist(cx, cy - 1, -1) + xdist(cx, cy + 1, -1)
           right == xdist(cx, cy, 1) + xdist(cx, cy - 1, 1) + xdist(cx, cy + 1, 1)
           x6 == PosScale * cx + (right - left)
           y6 == PosScale * cy + (down - up)
           unit == readUnit(x6, y6)
       IN  /\ heap' = [heap EXCEPT ![spot] =
                          [@ EXCEPT !.x = x6, !.y = y6, !.unit = unit, !.code = -1]]
           /\ dec' = [dec EXCEPT !.up = up, !.down = down, !.left = left,
                                 !.right = right]
           /\ IF unit < 0
              THEN pc' = "find" /\ Advance
              ELSE pc' = "search" /\ UNCHANGED loopVars
    /\ UNCHANGED <<arg, ret, scannerVars, thresholdVars, spot, spots, nover>>

(* a comparison that lets a later attempt of equal confidence win *)
KeepBestMutant(c, maxc) == c >= maxc

(* line 203: if (c > maxc) *)
KeepBest(c, maxc) == c > maxc

(* decode, lines 199-206: one turn of the loops over u and a; dec.n turns  *)
(* are done, so u = -2 + n / 10 and a = n % 10                             *)
SearchStep ==
    /\ pc = "search"
    /\ LET u == dec.n \div ArcSteps - 2
           arca == (dec.n % ArcSteps) * (ArcScale \div ArcSteps)
           unit == AttemptUnit(heap[spot].unit, u)
           r == readCode(heap[spot].x, heap[spot].y, unit, arca)
       IN  /\ heap' = [heap EXCEPT ![spot].code = r.code]
           /\ dec' = IF KeepBest(r.c, dec.maxc)
                     THEN [dec EXCEPT !.n = @ + 1, !.c = r.c, !.maxc = r.c,
                                      !.maxa = arca, !.maxu = unit]
                     ELSE [dec EXCEPT !.n = @ + 1, !.c = r.c]
    /\ pc' = IF dec.n + 1 = 5 * ArcSteps THEN "finish" ELSE "search"
    /\ UNCHANGED <<arg, ret, scannerVars, loopVars, thresholdVars, spot, spots,
                   nover>>

(* decode, lines 210-215, and findCodes, lines 361-365 *)
DecodeFinish ==
    /\ pc = "finish"
    /\ LET top == heap[spot]
           r == readCode(top.x, top.y, dec.maxu, dec.maxa)
           rot == rotateLowest(r.code, dec.maxa)
           read == IF dec.maxc > 0
                   THEN [top EXCEPT !.unit = dec.maxu, !.code = rot.min,
                                    !.orientation = rot.orientation]
                   ELSE top
           hp == [heap EXCEPT ![spot] = read]
       IN  IF isValid(read)
           THEN /\ spots' = Append(spots, spot)
                /\ heap' = AfterAppend(hp, spot).heap
                /\ spot' = AfterAppend(hp, spot).spot
           ELSE /\ spots' = spots
                /\ heap' = hp
                /\ spot' = spot
    /\ Advance
    /\ pc' = "find"
    /\ UNCHANGED <<arg, ret, scannerVars, thresholdVars, dec, nover>>

(* findCodes, line 366, and scan, line 99: the list of symbols, by value *)
Return ==
    /\ pc = "find"
    /\ j >= h - 2
    /\ ret' = << [n \in DOMAIN spots |-> heap[spots[n]]] >>
    /\ pc' = "done"
    /\ UNCHANGED <<arg, scannerVars, loopVars, thresholdVars, codeVars>>

----------------------------------------------------------------------------
(* Rasters with a printed symbol, given by the runs of every row: the      *)
(* lengths of the white and black stretches in turn, white first           *)

(* the symbol 31 (sectors 0..4 white), 2.5 pixels a ring, centred at       *)
(* (10, 10) on 21 x 21 white                                               *)
MarkerRows ==
    << <<21>>,
       <<6, 9, 6>>,
       <<5, 11, 5>>,
       <<3, 5, 5, 5, 3>>,
       <<3, 3, 9, 3, 3>>,
       <<2, 3, 11, 3, 2>>,
       <<1, 3, 4, 5, 4, 3, 1>>,
       <<1, 3, 3, 7, 3, 3, 1>>,
       <<1, 2, 3, 3, 3, 3, 3, 1, 2>>,
       <<1, 2, 3, 2, 5, 2, 6>>,
       <<1, 2, 3, 2, 5, 2, 6>>,
       <<1, 2, 3, 2, 5, 2, 6>>,
       <<1, 2, 3, 3, 3, 3, 6>>,
       <<1, 3, 3, 7, 7>>,
       <<1, 3, 4, 5, 8>>,
       <<2, 3, 16>>,
       <<3, 3, 15>>,
       <<3, 3, 15>>,
       <<21>>,
       <<21>>,
       <<21>> >>

(* the symbol 31, 2.75 pixels a ring, centred at (11, 11) on 23 x 23       *)
(* white, and a white streak over columns 12..13 of rows 0..10             *)
StreakedRows ==
    << <<23>>,
       <<7, 5, 2, 2, 7>>,
       <<5, 7, 2, 4, 5>>,
       <<4, 5, 5, 5, 4>>,
       <<3, 4, 9, 4, 3>>,
       <<2, 4, 11, 4, 2>>,
       <<2, 3, 4, 3, 6, 3, 2>>,
       <<1, 3, 4, 4, 2, 1, 4, 3, 1>>,
       <<1, 3, 3, 5, 2, 2, 3, 3, 1>>,
       <<1, 2, 3, 4, 4, 3, 6>>,
       <<1, 2, 3, 3, 5, 3, 6>>,
       <<1, 2, 3, 3, 5, 3, 6>>,
       <<1, 2, 3, 3, 5, 3, 6>>,
       <<1, 2, 3, 4, 3, 4, 6>>,
       <<1, 3, 3, 9, 7>>,
       <<1, 3, 4, 7, 8>>,
       <<2, 3, 4, 5, 9>>,
       <<2, 4, 17>>,
       <<3, 4, 16>>,
       <<4, 2, 17>>,
       <<23>>,
       <<23>>,
       <<23>> >>

(* the symbol 93 turned by five sectors, 2.5 pixels a ring, centred at     *)
(* (10, 10) on 21 x 21 white                                               *)
TurnedRows ==
    << <<21>>,
       <<9, 5, 7>>,
       <<10, 4, 7>>,
       <<21>>,
       <<17, 1, 3>>,
       <<16, 3, 2>>,
       <<8, 5, 4, 3, 1>>,
       <<7, 7, 3, 3, 1>>,
       <<6, 3, 3, 3, 3, 2, 1>>,
       <<6, 2, 5, 2, 3, 2, 1>>,
       <<1, 2, 3, 2, 5, 2, 3, 2, 1>>,
       <<1, 2, 3, 2, 5, 2, 3, 2, 1>>,
       <<1, 2, 3, 3, 3, 3, 3, 2, 1>>,
       <<1, 3, 3, 7, 3, 3, 1>>,
       <<1, 2, 5, 5, 4, 3, 1>>,
       <<16, 3, 2>>,
       <<15, 3, 3>>,
       <<6, 2, 5, 5, 3>>,
       <<5, 11, 5>>,
       <<6, 9, 6>>,
       <<21>> >>

(* the symbol 91 turned by five sectors, 2.5 pixels a ring, centred at     *)
(* (10, 10) on 21 x 21 white: two readCode attempts tie for the highest    *)
(* confidence                                                              *)
TiedRows ==
    << <<21>>,
       <<9, 5, 7>>,
       <<10, 4, 7>>,
       <<21>>,
       <<17, 1, 3>>,
       <<16, 3, 2>>,
       <<1, 2, 5, 5, 4, 3, 1>>,
       <<1, 3, 3, 7, 3, 3, 1>>,
       <<1, 2, 3, 3, 3, 3, 3, 2, 1>>,
       <<1, 2, 3, 2, 5, 2, 3, 2, 1>>,
       <<6, 2, 5, 2, 3, 2, 1>>,
       <<6, 2, 5, 2, 3, 2, 1>>,
       <<6, 3, 3, 3, 3, 2, 1>>,
       <<7, 7, 3, 3, 1>>,
       <<8, 5, 4, 3, 1>>,
       <<16, 3, 2>>,
       <<15, 3, 3>>,
       <<6, 2, 5, 5, 3>>,
       <<5, 11, 5>>,
       <<6, 9, 6>>,
       <<21>> >>

RECURSIVE RunLength(_, _)
RunLength(runs, n) == IF n = 0 THEN 0 ELSE runs[n] + RunLength(runs, n - 1)

(* the grey value at column x of a row given by its runs *)
RECURSIVE RunColour(_, _, _, _)
RunColour(runs, n, x, v) ==
    IF x < runs[n] THEN v
    ELSE RunColour(runs, n + 1, x - runs[n], White + Black - v)

(* the raster of the rows *)
SceneImage(rows) ==
    LET ww == RunLength(rows[1], Len(rows[1]))
    IN  [w |-> ww, h |-> Len(rows),
         px |-> [n \in 0..(ww * Len(rows) - 1) |->
                    RunColour(rows[n \div ww + 1], 1, n % ww, White)]]

SceneImages ==
    {SceneImage(MarkerRows), SceneImage(StreakedRows), SceneImage(TurnedRows),
     SceneImage(TiedRows)}

(* scan: threshold() and then findCodes() on a raster, with the default    *)
(* or a reduced maximal code diameter; the caller uses the setters on the  *)
(* objects it holds when scan has returned                                 *)
Next ==
    \/ SetMaxCodeDiameter(SmallDiameters)
    \/ Scan(UniformImages)
    \/ Scan(SceneImages)
    \/ StartRow
    \/ ThresholdPixel
    \/ FindStart
    \/ FindStep
    \/ DecodeCentre
    \/ SearchStep
    \/ DecodeFinish
    \/ Return
    \/ (pc = "done" /\ SetCode(SetCodes))
    \/ (pc = "done" /\ SetOrientation(SetAngles))
    \/ (pc = "done" /\ SetDiameter(SetDiameters))
    \/ (pc = "done" /\ SetLocation(SetPlaces))

Spec == InitIdle /\ [][Next]_vars

----------------------------------------------------------------------------
(* Claims about findCodes() and decode() *)

(* a symbol as the specification describes a decoded one: a 13-bit code    *)
(* above 0 with 5 bits set that is the least of its rotations              *)
ValidSymbol(top) ==
    /\ top.code > 0
    /\ top.code <= CodeMask
    /\ PopCount(top.code) = 5
    /\ top.code = Least(Rotations(top.code))

(* C3: every symbol of the list is valid, all through the sweep and in the *)
(* list as scan returns it; the object that the next decode writes to is   *)
(* never one of the list, and no step of the sweep changes a symbol of the *)
(* list or takes one out of it, whatever decode attempts succeed or fail   *)
C3_ReturnedSymbolsValid ==
    /\ [](/\ pc # "done" => \A n \in DOMAIN spots : ValidSymbol(heap[spots[n]])
          /\ \A n \in DOMAIN spots : spots[n] # spot
          /\ pc = "done" =>
                /\ Len(ret[1]) = Len(spots)
                /\ \A n \in DOMAIN ret[1] : ValidSymbol(ret[1][n]))
    /\ [][/\ pc # "done" =>
               \A n \in DOMAIN spots :
                   /\ n \in DOMAIN spots'
                   /\ spots'[n] = spots[n]
                   /\ heap'[spots[n]] = heap[spots[n]]
          /\ pc = "find" /\ pc' = "done" =>
               ret'[1] = [n \in DOMAIN spots |-> heap[spots[n]]]
         ]_vars

(* the sweep is over, one symbol (93) was accepted, and a later decode     *)
(* failed on the object that replaced it                                   *)
C3_Witness ==
    /\ pc = "done"
    /\ Len(ret[1]) = 1
    /\ ret[1][1].code = 93
    /\ ret[1][1].orientation = -865
    /\ heap[spot].code = -1
    /\ heap[spot].x # 0

(* C4: on an all-white or all-black raster no pixel is flagged, the        *)
(* candidate count stays 0 and the list of symbols stays empty and is      *)
(* returned empty                                                          *)
C4_UniformRasterNoCandidates ==
    (IsUniform(image, White) \/ IsUniform(image, Black)) =>
        /\ ccount = 0
        /\ spots = <<>>
        /\ pc \in {"row", "done"} => Candidates(data) = {}
        /\ pc = "done" => ret = << <<>> >>

(* an all-black raster wide enough for the threshold to turn white within  *)
(* the first row has been scanned                                          *)
C4_Witness ==
    /\ pc = "done"
    /\ IsUniform(image, Black)
    /\ w = MaxUniformW /\ h = MaxH
    /\ BW(data[0]) = 0
    /\ BW(data[w - 1]) = 1
    /\ ret = << <<>> >>

(* (px - x)^2 + (py - y)^2 <= unit^2 for an accepted symbol *)
NearAccepted(px, py) ==
    \E n \in DOMAIN spots :
        LET top == heap[spots[n]]
            dx == UnitScale * (PosScale * px - top.x)
            dy == UnitScale * (PosScale * py - top.y)
            r == PosScale * top.unit
        IN  dx * dx + dy * dy <= r * r

(* C5: a confirmed candidate within one unit of the centre of an accepted  *)
(* symbol is passed over: decode is not called, the count of tested        *)
(* candidates, the list and the symbols stay as they are                   *)
C5_OverlapSuppressed ==
    [][pc = "find" /\ j < h - 2 /\ Confirmed(data, k) /\ NearAccepted(i, j) =>
         /\ pc' = "find"
         /\ tcount' = tcount
         /\ spots' = spots
         /\ heap' = heap
         /\ spot' = spot
      ]_vars

(* two confirmed candidates have been passed over next to the one symbol   *)
(* accepted so far                                                         *)
C5_Witness ==
    pc = "find" /\ nover = 2 /\ Len(spots) = 1

(* the confirmed candidates of rows 2..h-3 *)
SeedPoints == {n \in (2 * w)..((h - 2) * w - 1) : Confirmed(data, n)}

(* C6 as claimed: when findCodes is done the tested count is the number of *)
(* confirmed candidates, those skipped for overlap included                *)
C6_TestedCountsConfirmed ==
    pc = "done" => tcount = Cardinality(SeedPoints)

(* C6 amended: when findCodes is done the tested count is the number of    *)
(* confirmed candidates that the overlap check let through to decode;      *)
(* those skipped for overlap are not counted                               *)
C6_TestedCountsDecoded ==
    pc = "done" => tcount = Cardinality(SeedPoints) - nover

(* a sweep with seven confirmed candidates, two of them skipped *)
C6_Witness ==
    pc = "done" /\ Cardinality(SeedPoints) = 7 /\ nover = 2 /\ tcount = 5

(* one of the twelve probes of decode's centre refinement came back -1 *)
ProbeFailed ==
    \/ \E dx \in -1..1, d \in {-1, 1} : ydist(dec.cx + dx, dec.cy, d) = -1
    \/ \E dy \in -1..1, d \in {-1, 1} : xdist(dec.cx, dec.cy + dy, d) = -1

(* the readCode attempt made last asked for a sample outside the area      *)
(* that getSample3x3 reads                                                 *)
LastAttemptOutside ==
    LET n == dec.n - 1
        unit == AttemptUnit(heap[spot].unit, n \div ArcSteps - 2)
        arca == (n % ArcSteps) * (ArcScale \div ArcSteps)
    IN  \E sector \in 0..(SECTORS - 1), m \in 0..(WIDTH - 1) :
            OutsideArea(
                SampleX(heap[spot].x, AngleIndex(sector, arca), 2 * m - 7, unit),
                SampleY(heap[spot].y, AngleIndex(sector, arca), 2 * m - 7, unit))

(* C7 as claimed: a probe that comes back -1 ends decode before its search *)
(* for unit and arc, and a readCode attempt with a sample outside the      *)
(* raster area gives confidence 0 and no code                              *)
C7_SentinelAborts ==
    /\ pc = "search" => ~ProbeFailed
    /\ pc \in {"search", "finish"} /\ dec.n > 0 /\ LastAttemptOutside =>
          dec.c = 0 /\ (pc = "search" => heap[spot].code = -1)

----------------------------------------------------------------------------
(* Further claims about threshold() *)

(* C11: when the ratio test passes at pixel k of row j, scanned in         *)
(* direction dir, the pixels newly flagged are dk-1, dk, dk+1, none of     *)
(* them flagged before; they lie in row j between the first pixel of the   *)
(* first black run and the last pixel of the second black run; dk is the   *)
(* pixel of the white run w1 / 2 away from its edge next to the second     *)
(* black run; the runs are black, white, black in the buffer; and ccount   *)
(* grows by the number of newly flagged pixels, 3                          *)
C11_FlagsAtMidpoint ==
    [][pc = "pixel" /\ ccount' # ccount =>
         LET dir == IF j % 2 = 0 THEN 1 ELSE -1
             edge == k - dir * (b2 + 1)
             dk == edge - dir * (w1 \div 2)
             first == k - dir * (b1 + w1 + b2)
             last == k - dir
             new == Candidates(data') \ Candidates(data)
         IN  /\ new = {dk - 1, dk, dk + 1}
             /\ Candidates(data') = Candidates(data) \cup new
             /\ ccount' = ccount + Cardinality(new)
             /\ Cardinality(new) = 3
             /\ \A n \in new :
                   /\ n \div w = j
                   /\ (n - first) * dir >= 0
                   /\ (last - n) * dir >= 0
             /\ (edge - dk) * dir \in 0..(w1 - 1)
             /\ \A t \in 0..(w1 - 1) : BW(data'[edge - dir * t]) = 1
             /\ \A t \in 1..b2 : BW(data'[k - dir * t]) = 0
             /\ \A t \in 0..(b1 - 1) : BW(data'[first + dir * t]) = 0
      ]_vars

(* the second test of a right-to-left row has just passed *)
C11_Witness ==
    /\ pc = "pixel" /\ j % 2 = 1 /\ level = 2 /\ w1 = 1 /\ a = 1
    /\ Cardinality({n \in Candidates(data) : n \div w = j}) = 6

----------------------------------------------------------------------------
(* Claims about the indices of the data buffer *)

(* how far outside the raster the coordinates of a sample are tried *)
Margin == 3

(* the indices of the buffer of a w x h raster *)
Indices == 0..(w * h - 1)

(* C12: the buffer has the indices 0..w*h-1 and no step goes outside them: *)
(* threshold() reads k and, from row 1 on, k - w, and writes its flags at  *)
(* dk-1, dk, dk+1; findCodes reads k, k-1, k+1, k-w, k+w; and for every    *)
(* point, negative and too large coordinates included, the samplers either *)
(* return without a read or read a 3x3 region inside the buffer            *)
C12_IndicesInBuffer ==
    /\ [](pc = "row" =>
            /\ DOMAIN data = Indices
            /\ \A x \in (-Margin)..(w + Margin), y \in (-Margin)..(h + Margin) :
                  /\ ~OutsideArea(x, y) => Region3x3(x, y) \subseteq Indices
                  /\ OutsideArea(x, y) => getSample3x3(x, y) = 0 /\ getBW3x3(x, y) = 0)
    /\ [][/\ pc = "pixel" =>
               /\ k \in Indices
               /\ k >= w => k - w \in Indices
               /\ ccount' # ccount =>
                     LET dk == CentreIndex(k, j, b2, w1)
                     IN  {dk - 1, dk, dk + 1} \subseteq Indices
          /\ pc = "find" /\ j < h - 2 =>
               {k, k - 1, k + 1, k - w, k + w} \subseteq Indices
         ]_vars

(* a readCode attempt has asked for a sample outside the area, got 0       *)
(* without a read, and ended with a positive confidence                    *)
C12_Witness ==
    pc = "search" /\ dec.n > 0 /\ LastAttemptOutside /\ dec.c > 0

----------------------------------------------------------------------------
(* Claims about the search of decode() *)

(* the unit of attempt n of the 50: the unit read times 0.90, 0.95, 1.00,  *)
(* 1.05, 1.10, ten attempts each                                           *)
UnitAt(n) == (heap[spot].unit * (90 + 5 * (n \div 10))) \div 100

(* what readCode gives for attempt n: angular offset (n % 10) tenths of    *)
(* ARC                                                                     *)
AttemptAt(n) ==
    readCode(heap[spot].x, heap[spot].y, UnitAt(n), (n % 10) * 10)

(* C13: decode goes on to the search exactly when the unit read is not     *)
(* negative; the search makes the 50 attempts in order, one per turn, and  *)
(* only then decode ends; it ends with code -1 and nothing appended when   *)
(* no attempt has positive confidence, and else with the unit of the       *)
(* first attempt of highest confidence and with the least rotation of the  *)
(* bits that attempt read, which have 5 of 13 set, whatever the attempts   *)
(* after it left in the code field                                         *)
C13_BestAttemptWins ==
    [][/\ pc = "decode" =>
             /\ pc' = "search" <=> heap'[spot].unit >= 0
             /\ pc' = "search" => dec'.n = 0 /\ dec'.maxc = 0
       /\ pc = "search" =>
             /\ dec.n < 50
             /\ dec'.n = dec.n + 1
             /\ dec'.c = AttemptAt(dec.n).c
             /\ heap'[spot].code = AttemptAt(dec.n).code
             /\ pc' = IF dec'.n = 50 THEN "finish" ELSE "search"
       /\ pc = "finish" =>
             LET conf == [n \in 0..49 |-> AttemptAt(n).c]
                 obj == IF spots' # spots THEN heap'[spots'[Len(spots')]]
                        ELSE heap'[spot']
             IN  /\ dec.n = 50
                 /\ IF \A n \in 0..49 : conf[n] <= 0
                    THEN obj.code = -1 /\ spots' = spots
                    ELSE LET best == CHOOSE n \in 0..49 :
                                        /\ \A m \in 0..49 : conf[m] <= conf[n]
                                        /\ \A m \in 0..(n - 1) : conf[m] < conf[n]
                         IN  /\ obj.unit = UnitAt(best)
                             /\ PopCount(AttemptAt(best).code) = 5
                             /\ obj.code = Least(Rotations(AttemptAt(best).code))
      ]_vars

(* decode has ended with the symbol 91 and the unit of the first of two    *)
(* attempts that tie for the highest confidence, after a last attempt      *)
(* that failed                                                             *)
C13_Witness ==
    /\ pc = "find"
    /\ Len(spots) = 1
    /\ heap[spots[1]].code = 91
    /\ heap[spots[1]].unit = 380
    /\ dec.n = 50
    /\ dec.c = 0
    /\ dec.maxa = 90

----------------------------------------------------------------------------
(* Claims about the running sum of threshold() *)

(* the largest running sum: 255 * s *)
MaxSum == 255 * WindowS

(* C14: the running sum stays in 0..7650 and the low 24 bits of every      *)
(* processed word hold such a sum; a pixel's word gets the running sum as  *)
(* it is after that pixel, and no later step, flag writes included,        *)
(* changes the low 24 bits of a processed word; the pixel is black exactly *)
(* when its grey value is below 0.975 times sum / s in row 0 and           *)
(* 0.975 times (sum + S) / (2s) in the rows below, S the low 24 bits of    *)
(* the word above                                                          *)
C14_SumFitsAndThreshold ==
    /\ [](/\ sum \in 0..MaxSum
          /\ pc = "row" =>
                \A n \in DOMAIN data :
                    data[n] >= 0 => (data[n] % (2 ^ 24)) \in 0..MaxSum)
    /\ [][/\ pc = "pixel" =>
               LET grey == image.px[k]
                   above == data[k - w] % (2 ^ 24)
                   thr == IF j = 0 THEN sum' \div 30 ELSE (sum' + above) \div 60
               IN  /\ sum' = sum + grey - sum \div 30
                   /\ data'[k] % (2 ^ 24) = sum'
                   /\ a' = (IF 1000 * grey < 975 * thr THEN 0 ELSE 1)
                   /\ BW(data'[k]) = a'
          /\ \/ data' = data
             \/ \A n \in DOMAIN data \ {k} :
                   data[n] >= 0 => data'[n] % (2 ^ 24) = data[n] % (2 ^ 24)
         ]_vars

(* the sum has reached 7650, in a row below the first *)
C14_Witness ==
    pc = "pixel" /\ j >= 1 /\ i >= 1 /\ sum = 7650 /\ a = 1

=============================================================================
